---- MODULE Spec2Model ----
(***************************************************************************)
(* A model of the filesystem layer of nx (src/src/fs.rs): the path         *)
(* segmentation functions, the global session and device list, the facade  *)
(* operations, and the File and Directory handles.                         *)
(*                                                                         *)
(* Strings are sequences of one-character strings, so that split and       *)
(* ends_with act on characters as the Rust code does.  The remote          *)
(* filesystem service is the environment: every result it returns is an    *)
(* input drawn with \E in the action that issues the call.                 *)
(***************************************************************************)
EXTENDS Naturals, Sequences, FiniteSets

VARIABLES
    G_FSPSRV_SESSION,   \* the session cell: NullSession or ProxySession
    G_DEVICES,          \* Vec<Device>
    ret,                \* what the last facade / lifecycle call returned
    calls,              \* the backend calls the call that returned last issued
    file,               \* a File handle: [offset]
    file_ret,           \* what the last File method returned
    file_calls,         \* the backend calls the last File method issued
    dir,                \* a Directory handle: [offset, entry_count, entries]
    dir_backend,        \* the remote directory: [content, pos, faulty, failures]
    dir_ret,            \* what the last Directory method returned
    dir_log,            \* history of the handle: [reads, returned, nexts, nones, rewound]
    pure_in,            \* input of a pure function
    pure_out,           \* the function applied to it, or Pending
    pc                  \* where each thread stands inside finalize, mount or
                        \* mount_sd_card, with the backend calls issued so far

vars == <<G_FSPSRV_SESSION, G_DEVICES, ret, calls, file, file_ret, file_calls,
          dir, dir_backend, dir_ret, dir_log, pure_in, pure_out, pc>>

facade_vars == <<G_FSPSRV_SESSION, G_DEVICES, ret, calls>>
file_vars == <<file, file_ret, file_calls>>
dir_vars == <<dir, dir_backend, dir_ret, dir_log>>
pure_vars == <<pure_in, pure_out>>
thread_vars == <<pc>>

----------------------------------------------------------------------------
(* Bounds of the model *)

\* longest input string enumerated for the path functions
MaxLen == 4
\* most devices the list holds at once
MaxDevices == 2
\* largest directory the remote side reports
MaxEntries == 33
\* most consecutive next() calls answered None that are followed
MaxNones == 2
\* most backend directory reads that fail on one handle
MaxReadFailures == 1
\* largest cursor a File handle is driven to
MaxOffset == 200
\* longest segment sequence handed to pack_path
MaxSegments == 3

----------------------------------------------------------------------------
(* Strings *)

Alphabet == {"a", ":", "/", "."}

RECURSIVE StringsOfLen(_)
StringsOfLen(n) ==
    IF n = 0 THEN {<<>>}
    ELSE {Append(s, c) : s \in StringsOfLen(n - 1), c \in Alphabet}

Strings == UNION {StringsOfLen(n) : n \in 0..MaxLen}

str_sdmc == <<"s", "d", "m", "c">>
str_sdmc_colon == <<"s", "d", "m", "c", ":">>
str_rom == <<"r", "o", "m">>
str_dotdot == <<".", ".">>
\* "sdmc:/a/../b"
path_sdmc_a_dd_b == <<"s", "d", "m", "c", ":", "/", "a", "/", ".", ".", "/", "b">>
\* "sdmc:/a"
path_sdmc_a == <<"s", "d", "m", "c", ":", "/", "a">>
\* "sdmc:"
path_sdmc == str_sdmc_colon
\* "rom:/a"
path_rom_a == <<"r", "o", "m", ":", "/", "a">>
\* "sdmc:/../x"
path_sdmc_dd_x == <<"s", "d", "m", "c", ":", "/", ".", ".", "/", "x">>
\* "../.."
path_dd_dd == <<".", ".", "/", ".", ".">>
\* "sdmc:/a/"
path_sdmc_a_slash ==
    <<"s", "d", "m", "c", ":", "/", "a", "/">>
\* "sdmc:/a//b/"
path_sdmc_a_slash_slash_b_slash ==
    <<"s", "d", "m", "c", ":", "/", "a", "/", "/", "b", "/">>
\* "a/b"
path_a_b == <<"a", "/", "b">>

----------------------------------------------------------------------------
(* PathSegment, unpack_path_impl, unpack_path, pack_path *)

PathSegment_from(name, segment_type) ==
    [name |-> name, segment_type |-> segment_type]

\* str::split('/'): n separators give n + 1 tokens, empty ones included
RECURSIVE split(_)
split(s) ==
    IF s = <<>> THEN << <<>> >>
    ELSE LET rest == split(Tail(s)) IN
         IF Head(s) = "/" THEN << <<>> >> \o rest
         ELSE << <<Head(s)>> \o Head(rest) >> \o Tail(rest)

ends_with(s, c) == Len(s) > 0 /\ s[Len(s)] = c

\* Vec::pop: removes the last element, nothing on an empty vector
pop(v) == IF Len(v) = 0 THEN v ELSE SubSeq(v, 1, Len(v) - 1)

\* one iteration of the loop of unpack_path_impl; mutant: ".." pops the
\* oldest segment instead of the newest
unpack_step_popfront(unpacked_path, sub_path) ==
    IF ends_with(sub_path, ":")
    THEN Append(unpacked_path, PathSegment_from(sub_path, "Root"))
    ELSE IF sub_path = str_dotdot
    THEN (IF Len(unpacked_path) = 0 THEN unpacked_path ELSE Tail(unpacked_path))
    ELSE Append(unpacked_path, PathSegment_from(sub_path, "Normal"))

unpack_step(unpacked_path, sub_path) ==
    IF ends_with(sub_path, ":")
    THEN Append(unpacked_path, PathSegment_from(sub_path, "Root"))
    ELSE IF sub_path = str_dotdot
    THEN pop(unpacked_path)
    ELSE Append(unpacked_path, PathSegment_from(sub_path, "Normal"))

RECURSIVE unpack_loop(_, _)
unpack_loop(unpacked_path, tokens) ==
    IF tokens = <<>> THEN unpacked_path
    ELSE unpack_loop(unpack_step(unpacked_path, Head(tokens)), Tail(tokens))

unpack_path_impl(path) == unpack_loop(<<>>, split(path))

ResultInvalidPath == "0xBAD"
ResultNotInitialized == "NotInitialized"
ResultDeviceNotFound == "DeviceNotFound"
ResultPathNotFound == "PathNotFound"
\* any other failure the remote side or the transport reports
ResultOther == "IoError"

Ok(v) == [ok |-> TRUE, rc |-> "Success", value |-> v]
Err(rc) == [ok |-> FALSE, rc |-> rc, value |-> <<>>]

\* unpack_path that reports an empty unpacked path as a missing device
unpack_path_as_missing_device(path) ==
    LET unpacked_path == unpack_path_impl(path) IN
    IF Len(unpacked_path) = 0 THEN Err(ResultDeviceNotFound) ELSE Ok(unpacked_path)

unpack_path(path) ==
    LET unpacked_path == unpack_path_impl(path) IN
    IF Len(unpacked_path) = 0 THEN Err(ResultInvalidPath) ELSE Ok(unpacked_path)

\* the loop of pack_path: format!("{}{}/", path, name) for each emitted segment
RECURSIVE pack_loop(_, _, _)
pack_loop(path, unpacked_path, add_root) ==
    IF unpacked_path = <<>> THEN path
    ELSE LET path_segment == Head(unpacked_path)
             emitted ==
                 CASE path_segment.segment_type = "Root" ->
                          IF add_root THEN path \o path_segment.name \o <<"/">>
                          ELSE path
                   [] path_segment.segment_type = "Normal" ->
                          path \o path_segment.name \o <<"/">>
                   [] OTHER -> path
         IN pack_loop(emitted, Tail(unpacked_path), add_root)

\* pack_path that emits Root segments whatever add_root says
pack_path_with_roots(unpacked_path, add_root) ==
    LET start == IF add_root THEN <<>> ELSE <<"/">>
        path == pack_loop(start, unpacked_path, TRUE)
    IN IF Len(path) > 1 THEN SubSeq(path, 1, Len(path) - 1) ELSE path

pack_path(unpacked_path, add_root) ==
    LET start == IF add_root THEN <<>> ELSE <<"/">>
        path == pack_loop(start, unpacked_path, add_root)
    IN IF Len(path) > 1 THEN SubSeq(path, 1, Len(path) - 1) ELSE path

----------------------------------------------------------------------------
(* The global session, the device list and the lifecycle operations *)

NullSession == "null"
ProxySession == "proxy"

\* backend filesystem objects: one a caller hands to mount, and the one the
\* session returns for the SD card
FsA == "fsA"
FsSd == "fsSd"
CallerFs == {FsA}

MountNames == {str_sdmc, str_rom}
UnmountNames == MountNames \cup {Append(n, ":") : n \in MountNames}

Device_from(root_name, fs) == [root_name |-> root_name, fs |-> fs]

\* a backend call as the remote side sees it, with the result code it answered
\* and, for get_size, the size it reported
Call(obj, fn, path, mode, attribute, size, answer) ==
    [obj |-> obj, fn |-> fn, path |-> path, mode |-> mode,
     attribute |-> attribute, size |-> size, rc |-> answer.rc,
     out |-> IF fn = "get_size" /\ answer.ok THEN answer.value ELSE 0]

\* the place of an argument a call does not take
NoArg == <<>>

NoFs == "-"

\* a call's return, with the path or name, the open option and the filesystem
\* object it was given
Returned(op, arg, option, fs, res) ==
    [op |-> op, arg |-> arg, option |-> option, fs |-> fs, res |-> res]

is_initialized == G_FSPSRV_SESSION # NullSession

\* find_device_by_name that takes the first device whatever its name
find_device_by_name_unnamed(name) ==
    IF G_DEVICES = <<>> THEN Err(ResultDeviceNotFound)
    ELSE Ok(G_DEVICES[1].fs)

\* find_device_by_name that returns the latest device of that name
find_device_by_name_last(name) ==
    LET matches == {i \in 1..Len(G_DEVICES) :
                        G_DEVICES[i].root_name.name = name.name}
    IN IF matches = {} THEN Err(ResultDeviceNotFound)
       ELSE Ok(G_DEVICES[CHOOSE i \in matches : \A j \in matches : i >= j].fs)

find_device_by_name(name) ==
    LET matches == {i \in 1..Len(G_DEVICES) :
                        G_DEVICES[i].root_name.name = name.name}
    IN IF matches = {} THEN Err(ResultDeviceNotFound)
       ELSE Ok(G_DEVICES[CHOOSE i \in matches : \A j \in matches : i <= j].fs)

\* Vec::retain(|dev| dev.root_name.name != root_name)
RECURSIVE retain(_, _)
retain(v, root_name) ==
    IF v = <<>> THEN <<>>
    ELSE IF Head(v).root_name.name # root_name
    THEN <<Head(v)>> \o retain(Tail(v), root_name)
    ELSE retain(Tail(v), root_name)

\* initialize that drops the session it had when the new one cannot be made
Initialize_drop_on_failure ==
    /\ \E created \in {Ok(ProxySession), Err(ResultOther)} :
          /\ G_FSPSRV_SESSION' = IF created.ok THEN created.value
                                 ELSE NullSession
          /\ ret' = Returned("initialize", NoArg, {}, NoFs,
                             IF created.ok THEN Ok(<<>>) ELSE created)
    /\ calls' = <<>>
    /\ UNCHANGED G_DEVICES
    /\ UNCHANGED <<file_vars, dir_vars, pure_vars, thread_vars>>

\* initialize: new_service_object either yields a session or fails, and on
\* failure the cell is not written
Initialize ==
    /\ \E created \in {Ok(ProxySession), Err(ResultOther)} :
          /\ G_FSPSRV_SESSION' = IF created.ok THEN created.value
                                 ELSE G_FSPSRV_SESSION
          /\ ret' = Returned("initialize", NoArg, {}, NoFs,
                             IF created.ok THEN Ok(<<>>) ELSE created)
    /\ calls' = <<>>
    /\ UNCHANGED G_DEVICES
    /\ UNCHANGED <<file_vars, dir_vars, pure_vars, thread_vars>>

\* the threads that call into the module, and where a thread stands inside
\* finalize, mount or mount_sd_card: each of these takes the lock of one
\* global at a time, and get() releases it when it hands the value out. A
\* step is one locked access, or the operation on the value handed out (the
\* push, the clear, the request and its answer), which runs without the lock
MainThread == "main thread"
OtherThread == "other thread"
Threads == {MainThread, OtherThread}

At(at, op, name, fs, issued) ==
    [at |-> at, op |-> op, name |-> name, fs |-> fs, issued |-> issued]

\* a thread outside any call
Idle == At("idle", "none", NoArg, NoFs, <<>>)

ThreadIdle == pc = [t \in Threads |-> Idle]

\* the process was ended by a fault
Aborted == \E t \in Threads : pc[t].at = "aborted"

\* a thread is inside Vec::push or Vec::clear on the device list: get() gave
\* it the list and released the lock before the Vec operation ran
InPush(t) == pc[t].at \in {"pushing", "pushing raced"}
InClear(t) == pc[t].at \in {"clearing", "clearing raced"}

\* what is left where a freed device was
FreedDevice == Device_from(PathSegment_from(<<"?">>, "Invalid"), NoFs)

\* the lists a push of device d and a clear that overlap on list D, a data
\* race, can leave: the list cleared, the pushed device alone, a freed device
\* in its place, or the old elements, as they were or freed, with the pushed
\* device after them (lists are kept within MaxDevices)
RacedLists(D, d) ==
    {L \in {<<>>, <<d>>, <<FreedDevice>>, Append(D, d),
            Append([i \in 1..Len(D) |-> FreedDevice], d)} :
       Len(L) <= MaxDevices}

\* the device mount(name, fs) pushes
mount_device(name, fs) ==
    Device_from(PathSegment_from(name \o <<":">>, "Root"), fs)

\* thread t starts its Vec operation, taking position `here`, while thread u
\* is inside the opposite one; d is the device being pushed. The overlap is
\* undefined behaviour: the process faults on the corrupted heap, or the two
\* operations leave one of RacedLists between them
vec_race(t, u, here, d) ==
    \/ /\ pc' = [pc EXCEPT ![t] = [here EXCEPT !.at = "aborted"]]
       /\ UNCHANGED G_DEVICES
    \/ /\ G_DEVICES' \in RacedLists(G_DEVICES, d)
       /\ pc' = [pc EXCEPT
                   ![t] = [here EXCEPT !.at = IF here.at = "pushing"
                                              THEN "pushing raced"
                                              ELSE "clearing raced"],
                   ![u] = [pc[u] EXCEPT !.at = IF here.at = "pushing"
                                               THEN "clearing raced"
                                               ELSE "pushing raced"]]

\* finalize, first access: get() locks the device list, hands it out and
\* releases the lock; Vec::clear starts on the list without the lock
FinalizeGet(t) ==
    /\ ~Aborted
    /\ pc[t] = Idle
    /\ LET here == At("clearing", "finalize", NoArg, NoFs, <<>>)
       IN IF \E u \in Threads \ {t} : InPush(u)
          THEN \E u \in Threads \ {t} :
                  /\ InPush(u)
                  /\ vec_race(t, u, here, mount_device(pc[u].name, pc[u].fs))
          ELSE /\ pc' = [pc EXCEPT ![t] = here]
               /\ UNCHANGED G_DEVICES
    /\ UNCHANGED <<G_FSPSRV_SESSION, ret, calls>>
    /\ UNCHANGED <<file_vars, dir_vars, pure_vars>>

\* the list holds a device that was freed already
HoldsFreed(D) == \E i \in 1..Len(D) : D[i] = FreedDevice

\* finalize: Vec::clear completes. A clear that no push overlapped empties
\* the list; a raced one has left what the race left. Clearing a list that
\* holds a freed device drops that device a second time, which is undefined:
\* the process faults on the double free, or the clear goes through
FinalizeClear(t) ==
    /\ ~Aborted
    /\ InClear(t)
    /\ \/ /\ G_DEVICES' = IF pc[t].at = "clearing" THEN <<>> ELSE G_DEVICES
          /\ pc' = [pc EXCEPT ![t] =
                      At("reset", "finalize", NoArg, NoFs, <<>>)]
       \/ /\ pc[t].at = "clearing"
          /\ HoldsFreed(G_DEVICES)
          /\ pc' = [pc EXCEPT ![t] = [pc[t] EXCEPT !.at = "aborted"]]
          /\ UNCHANGED G_DEVICES
    /\ UNCHANGED <<G_FSPSRV_SESSION, ret, calls>>
    /\ UNCHANGED <<file_vars, dir_vars, pure_vars>>

\* finalize, last access: the session is reset under the lock of its cell,
\* and finalize returns
FinalizeReset(t) ==
    /\ ~Aborted
    /\ pc[t].at = "reset"
    /\ G_FSPSRV_SESSION' = NullSession
    /\ ret' = Returned("finalize", NoArg, {}, NoFs, Ok(<<>>))
    /\ calls' = <<>>
    /\ pc' = [pc EXCEPT ![t] = Idle]
    /\ UNCHANGED G_DEVICES
    /\ UNCHANGED <<file_vars, dir_vars, pure_vars>>

\* the device list after the push of mount(name, fs)
mount_push(name, fs) == Append(G_DEVICES, mount_device(name, fs))

\* mount that does not look at the session
mount_initialized_unchecked == TRUE

\* result_return_unless!(is_initialized(), ..) of mount: one read of the
\* session cell under its lock
mount_initialized == is_initialized

\* the filesystem argument a mount or mount_sd_card return is logged with
logged_fs(op, fs) == IF op = "mount" THEN fs ELSE NoFs

\* mount's first access, for the call op of thread t: NotInitialized is
\* returned when the session is null, else the thread goes on to the push
mount_check(t, op, name, fs, issued) ==
    IF ~mount_initialized
    THEN /\ ret' = Returned(op, name, {}, logged_fs(op, fs),
                            Err(ResultNotInitialized))
         /\ calls' = issued
         /\ pc' = [pc EXCEPT ![t] = Idle]
    ELSE /\ pc' = [pc EXCEPT ![t] = At("push", op, name, fs, issued)]
         /\ UNCHANGED <<ret, calls>>

\* mount(name, fs) called by thread t: the is_initialized check
MountCheck(t, name, fs) ==
    /\ ~Aborted
    /\ pc[t] = Idle
    /\ is_initialized => Len(G_DEVICES) < MaxDevices
    /\ mount_check(t, "mount", name, fs, <<>>)
    /\ UNCHANGED <<G_FSPSRV_SESSION, G_DEVICES>>
    /\ UNCHANGED <<file_vars, dir_vars, pure_vars>>

\* mount's second access: get() locks the device list, hands it out and
\* releases the lock; Vec::push starts on the list without the lock
MountGet(t) ==
    /\ ~Aborted
    /\ pc[t].at = "push"
    /\ LET here == [pc[t] EXCEPT !.at = "pushing"]
       IN IF \E u \in Threads \ {t} : InClear(u)
          THEN \E u \in Threads \ {t} :
                  /\ InClear(u)
                  /\ vec_race(t, u, here, mount_device(pc[t].name, pc[t].fs))
          ELSE /\ pc' = [pc EXCEPT ![t] = here]
               /\ UNCHANGED G_DEVICES
    /\ UNCHANGED <<G_FSPSRV_SESSION, ret, calls>>
    /\ UNCHANGED <<file_vars, dir_vars, pure_vars>>

\* mount: Vec::push completes and mount returns. A push that no clear
\* overlapped appends the device; a raced one has left what the race left
MountPush(t) ==
    /\ ~Aborted
    /\ InPush(t)
    /\ G_DEVICES' = IF pc[t].at = "pushing"
                    THEN mount_push(pc[t].name, pc[t].fs)
                    ELSE G_DEVICES
    /\ ret' = Returned(pc[t].op, pc[t].name, {}, logged_fs(pc[t].op, pc[t].fs),
                       Ok(<<>>))
    /\ calls' = pc[t].issued
    /\ pc' = [pc EXCEPT ![t] = Idle]
    /\ UNCHANGED G_FSPSRV_SESSION
    /\ UNCHANGED <<file_vars, dir_vars, pure_vars>>

\* mount_sd_card(name) called by thread t: its own is_initialized check
SdCheck(t, name) ==
    /\ ~Aborted
    /\ pc[t] = Idle
    /\ is_initialized => Len(G_DEVICES) < MaxDevices
    /\ IF ~is_initialized
       THEN /\ ret' = Returned("mount_sd_card", name, {}, NoFs,
                               Err(ResultNotInitialized))
            /\ calls' = <<>>
            /\ UNCHANGED pc
       ELSE /\ pc' = [pc EXCEPT ![t] =
                            At("open", "mount_sd_card", name, NoFs, <<>>)]
            /\ UNCHANGED <<ret, calls>>
    /\ UNCHANGED <<G_FSPSRV_SESSION, G_DEVICES>>
    /\ UNCHANGED <<file_vars, dir_vars, pure_vars>>

\* what open_sd_card_filesystem can answer
SdCardResults == {Ok(FsSd), Err(ResultOther)}

\* the answer of a request that is still in flight
InFlight == [ok |-> FALSE, rc |-> "in flight", value |-> <<>>]

\* mount_sd_card's second access: the session is taken from its cell, the
\* lock is released and the request for the SD card filesystem is sent on the
\* session taken; the thread waits for the answer. When the session was reset
\* since the check, get() is applied to an empty Shared, which is undefined:
\* the process faults, or the request goes out on whatever the cell holds
SdOpen(t) ==
    /\ ~Aborted
    /\ pc[t].at = "open"
    /\ \/ /\ ~is_initialized
          /\ pc' = [pc EXCEPT ![t] = At("aborted", "mount_sd_card", pc[t].name,
                                        NoFs, <<>>)]
       \/ pc' = [pc EXCEPT ![t] =
                   At("answer", "mount_sd_card", pc[t].name, NoFs,
                      <<Call(G_FSPSRV_SESSION, "open_sd_card_filesystem",
                             NoArg, {}, "None", 0, InFlight)>>)]
    /\ UNCHANGED <<G_FSPSRV_SESSION, G_DEVICES, ret, calls>>
    /\ UNCHANGED <<file_vars, dir_vars, pure_vars>>

\* the answer to open_sd_card_filesystem arrives: an error is returned, a
\* filesystem is handed to mount
SdAnswer(t) ==
    /\ ~Aborted
    /\ pc[t].at = "answer"
    /\ \E sd_fs \in SdCardResults :
          LET issued == <<[pc[t].issued[1] EXCEPT !.rc = sd_fs.rc]>>
          IN IF ~sd_fs.ok
             THEN /\ ret' = Returned("mount_sd_card", pc[t].name, {}, NoFs,
                                     sd_fs)
                  /\ calls' = issued
                  /\ pc' = [pc EXCEPT ![t] = Idle]
             ELSE /\ pc' = [pc EXCEPT ![t] =
                              At("check", "mount_sd_card", pc[t].name,
                                 sd_fs.value, issued)]
                  /\ UNCHANGED <<ret, calls>>
    /\ UNCHANGED <<G_FSPSRV_SESSION, G_DEVICES>>
    /\ UNCHANGED <<file_vars, dir_vars, pure_vars>>

\* mount_sd_card's next access: the is_initialized check of the mount it
\* calls with the SD card filesystem
SdMountCheck(t) ==
    /\ ~Aborted
    /\ pc[t].at = "check"
    /\ mount_check(t, pc[t].op, pc[t].name, pc[t].fs, pc[t].issued)
    /\ UNCHANGED <<G_FSPSRV_SESSION, G_DEVICES>>
    /\ UNCHANGED <<file_vars, dir_vars, pure_vars>>

unmount(name) ==
    LET root_name == name
    IN retain(G_DEVICES, root_name)

Unmount(name) ==
    /\ G_DEVICES' = unmount(name)
    /\ ret' = Returned("unmount", name, {}, NoFs, Ok(<<>>))
    /\ calls' = <<>>
    /\ UNCHANGED G_FSPSRV_SESSION
    /\ UNCHANGED <<file_vars, dir_vars, pure_vars, thread_vars>>

----------------------------------------------------------------------------
(* The facade operations *)

FacadePaths ==
    {path_sdmc_a_dd_b, path_rom_a, path_sdmc_dd_x, path_dd_dd, path_a_b}

\* what every facade operation does before its backend call: the gate, unpack,
\* the device of the first segment, and the backend-local path.
\* Path::from_string always succeeds on paths of these lengths.
resolve_path(path) ==
    IF ~is_initialized THEN Err(ResultNotInitialized)
    ELSE LET unpacked_path == unpack_path(path) IN
         IF ~unpacked_path.ok THEN unpacked_path
         ELSE LET fs == find_device_by_name(unpacked_path.value[1]) IN
              IF ~fs.ok THEN fs
              ELSE Ok([fs |-> fs.value,
                       processed_path |-> pack_path(unpacked_path.value, FALSE)])

\* an operation that is one backend call on the resolved filesystem, whose
\* result is returned unchanged
single_call(op, fn, path, attribute, size, results) ==
    LET resolved == resolve_path(path) IN
    IF ~resolved.ok
    THEN /\ ret' = Returned(op, path, {}, NoFs, resolved)
         /\ calls' = <<>>
    ELSE \E r \in results :
            /\ calls' = <<Call(resolved.value.fs, fn,
                               resolved.value.processed_path, {}, attribute, size,
                               r)>>
            /\ ret' = Returned(op, path, {}, NoFs, r)

StatusResults == {Ok(<<>>), Err(ResultOther)}

CreateFile(path, size, attribute) ==
    /\ single_call("create_file", "create_file", path, attribute, size,
                   StatusResults)
    /\ UNCHANGED <<G_FSPSRV_SESSION, G_DEVICES>>
    /\ UNCHANGED <<file_vars, dir_vars, pure_vars, thread_vars>>

DeleteFile(path) ==
    /\ single_call("delete_file", "delete_file", path, "None", 0, StatusResults)
    /\ UNCHANGED <<G_FSPSRV_SESSION, G_DEVICES>>
    /\ UNCHANGED <<file_vars, dir_vars, pure_vars, thread_vars>>

CreateDirectory(path) ==
    /\ single_call("create_directory", "create_directory", path, "None", 0,
                   StatusResults)
    /\ UNCHANGED <<G_FSPSRV_SESSION, G_DEVICES>>
    /\ UNCHANGED <<file_vars, dir_vars, pure_vars, thread_vars>>

DeleteDirectory(path) ==
    /\ single_call("delete_directory", "delete_directory_recursively", path,
                   "None", 0, StatusResults)
    /\ UNCHANGED <<G_FSPSRV_SESSION, G_DEVICES>>
    /\ UNCHANGED <<file_vars, dir_vars, pure_vars, thread_vars>>

GetEntryType(path) ==
    /\ single_call("get_entry_type", "get_entry_type", path, "None", 0,
                   {Ok(<<"File">>), Err(ResultPathNotFound)})
    /\ UNCHANGED <<G_FSPSRV_SESSION, G_DEVICES>>
    /\ UNCHANGED <<file_vars, dir_vars, pure_vars, thread_vars>>

FormatPath(path) ==
    /\ ret' = Returned("format_path", path, {}, NoFs, resolve_path(path))
    /\ calls' = <<>>
    /\ UNCHANGED <<G_FSPSRV_SESSION, G_DEVICES>>
    /\ UNCHANGED <<file_vars, dir_vars, pure_vars, thread_vars>>

\* FileOpenOption is a bit set over these four; FileOpenMode over the last three
FileOpenOptions == SUBSET {"Create", "Read", "Write", "Append"}
\* the options the facade is driven with
FacadeOptions ==
    {option \in FileOpenOptions : "Read" \in option => option = {"Read"}}

\* convert_file_open_option that passes the option bits on as they are
convert_file_open_option_keep(option) == option

convert_file_open_option(option) ==
    LET m1 == IF "Read" \in option THEN {"Read"} ELSE {}
        m2 == IF "Write" \in option THEN m1 \cup {"Write"} ELSE m1
        m3 == IF "Append" \in option THEN m2 \cup {"Append"} ELSE m2
    IN m3

BackendFile == "file"
OpenResults == {Ok(BackendFile), Err(ResultPathNotFound), Err(ResultOther)}
SizeResults == {Ok(0), Ok(100), Err(ResultOther)}

\* the File that open_file returns once it holds a backend file: the cursor is
\* get_size().unwrap_or(0) with Append, and 0 without
\* mutant: the size is queried whatever the option
open_file_finish_always(path, option, issued) ==
    \E size \in SizeResults :
        /\ calls' = Append(issued,
                           Call(BackendFile, "get_size", NoArg, {}, "None", 0, size))
        /\ ret' = Returned("open_file", path, option, NoFs,
                           Ok([file |-> BackendFile,
                               offset |-> IF size.ok THEN size.value ELSE 0]))

open_file_finish(path, option, issued) ==
    IF "Append" \in option
    THEN \E size \in SizeResults :
            /\ calls' = Append(issued,
                               Call(BackendFile, "get_size", NoArg, {}, "None", 0,
                                    size))
            /\ ret' = Returned("open_file", path, option, NoFs,
                               Ok([file |-> BackendFile,
                                   offset |-> IF size.ok THEN size.value ELSE 0]))
    ELSE /\ calls' = issued
         /\ ret' = Returned("open_file", path, option, NoFs,
                            Ok([file |-> BackendFile, offset |-> 0]))

\* whether open_file recovers after the first open failed with rc
\* mutant: the recovery is taken on any error
open_file_recover_any(rc, option) == "Create" \in option

\* mutant: the recovery is never taken
open_file_recover_never(rc, option) == FALSE

open_file_recover(rc, option) ==
    rc = ResultPathNotFound /\ "Create" \in option

OpenFile(path, option) ==
    /\ LET resolved == resolve_path(path) IN
       IF ~resolved.ok
       THEN /\ ret' = Returned("open_file", path, option, NoFs, resolved)
            /\ calls' = <<>>
       ELSE LET fs == resolved.value.fs
                path_buf == resolved.value.processed_path
                mode == convert_file_open_option(option)
                open(answer) == Call(fs, "open_file", path_buf, mode, "None", 0,
                                     answer)
                create(answer) == Call(fs, "create_file", path_buf, {}, "None", 0,
                                       answer)
            IN \E first \in OpenResults :
                  IF first.ok THEN open_file_finish(path, option, <<open(first)>>)
                  ELSE IF open_file_recover(first.rc, option)
                  THEN \E created \in StatusResults :
                          IF ~created.ok
                          THEN /\ ret' = Returned("open_file", path, option, NoFs,
                                                  created)
                               /\ calls' = <<open(first), create(created)>>
                          ELSE \E second \in OpenResults :
                                  IF ~second.ok
                                  THEN /\ ret' = Returned("open_file", path, option,
                                                          NoFs, second)
                                       /\ calls' = <<open(first), create(created),
                                                     open(second)>>
                                  ELSE open_file_finish(path, option,
                                           <<open(first), create(created),
                                             open(second)>>)
                  ELSE /\ ret' = Returned("open_file", path, option, NoFs, first)
                       /\ calls' = <<open(first)>>
    /\ UNCHANGED <<G_FSPSRV_SESSION, G_DEVICES>>
    /\ UNCHANGED <<file_vars, dir_vars, pure_vars, thread_vars>>

BackendDir == "dir"

Directory_new(entry_count) ==
    [offset |-> 0, entry_count |-> entry_count, entries |-> <<>>]

DirectoryOpenModes == {{"ReadDirectories", "ReadFiles"}}
CountResults == {Ok(0), Ok(20), Err(ResultOther)}

OpenDirectory(path, mode) ==
    /\ LET resolved == resolve_path(path) IN
       IF ~resolved.ok
       THEN /\ ret' = Returned("open_directory", path, {}, NoFs, resolved)
            /\ calls' = <<>>
       ELSE LET open(answer) == Call(resolved.value.fs, "open_directory",
                                     resolved.value.processed_path, mode, "None", 0,
                                     answer)
                count(answer) == Call(BackendDir, "get_entry_count", NoArg, {},
                                      "None", 0, answer)
            IN \E opened \in {Ok(BackendDir), Err(ResultPathNotFound)} :
                  IF ~opened.ok
                  THEN /\ ret' = Returned("open_directory", path, {}, NoFs, opened)
                       /\ calls' = <<open(opened)>>
                  ELSE \E entry_count \in CountResults :
                          /\ calls' = <<open(opened), count(entry_count)>>
                          /\ ret' = Returned("open_directory", path, {}, NoFs,
                                IF ~entry_count.ok THEN entry_count
                                ELSE Ok(Directory_new(entry_count.value)))
    /\ UNCHANGED <<G_FSPSRV_SESSION, G_DEVICES>>
    /\ UNCHANGED <<file_vars, dir_vars, pure_vars, thread_vars>>

----------------------------------------------------------------------------
(* File *)

File_new == [offset |-> 0]

\* a File method's return, with the argument it was given, the cursor it
\* started from and the answer the backend gave it
FileReturned(op, size, whence, res, backend, before) ==
    [op |-> op, size |-> size, whence |-> whence, res |-> res,
     backend |-> backend, before |-> before]

FileCall(fn, offset, size) == [fn |-> fn, offset |-> offset, size |-> size]

\* seek, given the answer get_size would give; only End asks for it
\* mutant: Current sets the cursor instead of advancing it
File_seek_set(f, offset, whence, size) ==
    CASE whence = "Start" -> [file |-> [f EXCEPT !.offset = offset], res |-> Ok(<<>>)]
      [] whence = "Current" ->
             [file |-> [f EXCEPT !.offset = offset], res |-> Ok(<<>>)]
      [] whence = "End" ->
             IF ~size.ok THEN [file |-> f, res |-> size]
             ELSE [file |-> [f EXCEPT !.offset = size.value + offset],
                   res |-> Ok(<<>>)]

File_seek(f, offset, whence, size) ==
    CASE whence = "Start" -> [file |-> [f EXCEPT !.offset = offset], res |-> Ok(<<>>)]
      [] whence = "Current" ->
             [file |-> [f EXCEPT !.offset = f.offset + offset], res |-> Ok(<<>>)]
      [] whence = "End" ->
             IF ~size.ok THEN [file |-> f, res |-> size]
             ELSE [file |-> [f EXCEPT !.offset = size.value + offset],
                   res |-> Ok(<<>>)]

\* read, given the backend's answer read_size
\* mutant: the cursor advances by the bytes transferred
File_read_actual(f, size, read_size) ==
    IF ~read_size.ok THEN [file |-> f, res |-> read_size]
    ELSE [file |-> [f EXCEPT !.offset = f.offset + read_size.value],
          res |-> Ok(read_size.value)]

File_read(f, size, read_size) ==
    IF ~read_size.ok THEN [file |-> f, res |-> read_size]
    ELSE [file |-> [f EXCEPT !.offset = f.offset + size],
          res |-> Ok(read_size.value)]

\* write that advances the cursor before it looks at the backend's answer
File_write_advance_first(f, size, written) ==
    IF ~written.ok THEN [file |-> [f EXCEPT !.offset = f.offset + size],
                         res |-> written]
    ELSE [file |-> [f EXCEPT !.offset = f.offset + size], res |-> Ok(size)]

\* write, given the backend's answer written
File_write(f, size, written) ==
    IF ~written.ok THEN [file |-> f, res |-> written]
    ELSE [file |-> [f EXCEPT !.offset = f.offset + size], res |-> Ok(size)]

SeekOffsets == {0, 5, 10}
Whences == {"Start", "Current", "End"}
IoSizes == {0, 30, 50}

FileGetSize ==
    /\ \E size \in SizeResults :
          file_ret' = FileReturned("get_size", 0, "-", size, size, file.offset)
    /\ file_calls' = <<FileCall("get_size", 0, 0)>>
    /\ UNCHANGED file
    /\ UNCHANGED <<facade_vars, dir_vars, pure_vars, thread_vars>>

FileSeek(offset, whence) ==
    /\ \E size \in (IF whence = "End" THEN SizeResults ELSE {Ok(0)}) :
          LET r == File_seek(file, offset, whence, size) IN
          /\ r.file.offset <= MaxOffset
          /\ file' = r.file
          /\ file_ret' = FileReturned("seek", offset, whence, r.res, size,
                                      file.offset)
    /\ file_calls' = IF whence = "End" THEN <<FileCall("get_size", 0, 0)>>
                     ELSE <<>>
    /\ UNCHANGED <<facade_vars, dir_vars, pure_vars, thread_vars>>

FileRead(size) ==
    /\ \E read_size \in {Ok(n) : n \in {k \in IoSizes : k <= size}}
                            \cup {Err(ResultOther)} :
          LET r == File_read(file, size, read_size) IN
          /\ r.file.offset <= MaxOffset
          /\ file' = r.file
          /\ file_ret' = FileReturned("read", size, "-", r.res, read_size,
                                      file.offset)
    /\ file_calls' = <<FileCall("read", file.offset, size)>>
    /\ UNCHANGED <<facade_vars, dir_vars, pure_vars, thread_vars>>

FileWrite(size) ==
    /\ \E written \in StatusResults :
          LET r == File_write(file, size, written) IN
          /\ r.file.offset <= MaxOffset
          /\ file' = r.file
          /\ file_ret' = FileReturned("write", size, "-", r.res, written,
                                      file.offset)
    /\ file_calls' = <<FileCall("write", file.offset, size)>>
    /\ UNCHANGED <<facade_vars, dir_vars, pure_vars, thread_vars>>

----------------------------------------------------------------------------
(* Directory *)

\* new_count in refresh
BatchSize == 16

\* core::mem::zeroed(): the entry a slot of the batch holds until the backend
\* fills it
ZeroEntry == 0

Min(a, b) == IF a < b THEN a ELSE b

RECURSIVE Zeroes(_)
Zeroes(n) == IF n = 0 THEN <<>> ELSE <<ZeroEntry>> \o Zeroes(n - 1)

\* IDirectory::read of the remote directory b into a buffer of n slots: the
\* next entries of its content, at most n
backend_read(b, n) ==
    SubSeq(b.content, b.pos + 1, Min(b.pos + n, Len(b.content)))

\* what one IDirectory::read may report as filled: all it can give, or, from
\* a faulty directory, fewer (none or a single entry)
backend_reads(b, n) ==
    LET full == backend_read(b, n)
    IN IF b.faulty
       THEN {SubSeq(full, 1, k) : k \in {0, 1, Len(full)} \cap 0..Len(full)}
       ELSE {full}

\* refresh that appends only the slots the backend filled
refresh_batch_truncated(filled) == filled

\* the batch refresh appends after the backend filled `filled` of its slots:
\* Vec::shrink_to lowers the capacity, never the length, so all new_count
\* slots are appended
refresh_batch(filled) == filled \o Zeroes(BatchSize - Len(filled))

\* whether refresh asks the backend for a batch
\* mutant: every refresh fetches
refresh_needed_always(d) == TRUE

refresh_needed(d) == d.offset >= Len(d.entries)

\* refresh once the backend answered with `filled`
refresh(d, filled) ==
    IF refresh_needed(d)
    THEN [d EXCEPT !.entries = d.entries \o refresh_batch(filled)]
    ELSE d

\* the first test of next: nothing more is returned
next_exhausted(d) == Len(d.entries) = d.entry_count

\* Option<DirectoryEntry>; rewind returns (), shown as None
None == [some |-> FALSE, entry |-> ZeroEntry]
Some(entry) == [some |-> TRUE, entry |-> entry]
DirReturned(op, res) == [op |-> op, res |-> res]

\* the panic of an index past the end of a Vec
IndexOutOfBounds == "index out of bounds"

\* a backend read that fails: refresh returns the error before it touches
\* the handle
DirReadFails(op) ==
    /\ dir_backend.faulty
    /\ dir_backend.failures < MaxReadFailures
    /\ dir_backend' = [dir_backend EXCEPT !.failures = @ + 1]
    /\ dir_ret' = DirReturned(op, Err(ResultOther))
    /\ dir_log' = [dir_log EXCEPT !.reads = @ + 1,
                                  !.nexts = IF op = "next" THEN @ + 1 ELSE @]
    /\ UNCHANGED dir

DirNext ==
    /\ dir_log.nones < MaxNones
    /\ IF next_exhausted(dir)
       THEN /\ dir_ret' = DirReturned("next", Ok(None))
            /\ dir_log' = [dir_log EXCEPT !.nexts = @ + 1, !.nones = @ + 1]
            /\ UNCHANGED <<dir, dir_backend>>
       ELSE \/ /\ refresh_needed(dir)
               /\ DirReadFails("next")
            \/ \E filled \in (IF refresh_needed(dir)
                               THEN backend_reads(dir_backend, BatchSize)
                               ELSE {<<>>}) :
               LET d == refresh(dir, filled)
                   log == IF refresh_needed(dir)
                          THEN [dir_log EXCEPT !.reads = @ + 1,
                                               !.counts = Append(@, Len(filled))]
                          ELSE dir_log
               IN /\ dir_backend' = [dir_backend EXCEPT !.pos = @ + Len(filled)]
                  /\ IF d.offset = d.entry_count
                     THEN /\ dir' = d
                          /\ dir_ret' = DirReturned("next", Ok(None))
                          /\ dir_log' = [log EXCEPT !.nexts = @ + 1,
                                                    !.nones = @ + 1]
                     ELSE IF d.offset >= Len(d.entries)
                     THEN /\ dir' = d
                          /\ dir_ret' = DirReturned("next", Err(IndexOutOfBounds))
                          /\ dir_log' = [log EXCEPT !.nexts = @ + 1]
                     ELSE /\ dir' = [d EXCEPT !.offset = @ + 1]
                          /\ dir_ret' = DirReturned("next",
                                            Ok(Some(d.entries[d.offset + 1])))
                          /\ dir_log' = [log EXCEPT
                                 !.nexts = @ + 1, !.nones = 0,
                                 !.returned = Append(@, d.entries[d.offset + 1])]
    /\ UNCHANGED <<facade_vars, file_vars, pure_vars, thread_vars>>

DirRewind ==
    /\ LET rewound == [dir EXCEPT !.offset = 0]
           rlog == [dir_log EXCEPT !.rewound = TRUE, !.returned = <<>>,
                                   !.nexts = 0, !.nones = 0]
       IN \/ /\ refresh_needed(rewound)
             /\ dir_backend.faulty
             /\ dir_backend.failures < MaxReadFailures
             /\ dir_backend' = [dir_backend EXCEPT !.failures = @ + 1]
             /\ dir' = rewound
             /\ dir_ret' = DirReturned("rewind", Err(ResultOther))
             /\ dir_log' = [rlog EXCEPT !.reads = @ + 1]
          \/ \E filled \in (IF refresh_needed(rewound)
                             THEN backend_reads(dir_backend, BatchSize)
                             ELSE {<<>>}) :
                /\ dir' = refresh(rewound, filled)
                /\ dir_backend' = [dir_backend EXCEPT !.pos = @ + Len(filled)]
                /\ dir_ret' = DirReturned("rewind", Ok(None))
                /\ dir_log' = IF refresh_needed(rewound)
                              THEN [rlog EXCEPT !.reads = @ + 1,
                                                !.counts = Append(@, Len(filled))]
                              ELSE rlog
    /\ UNCHANGED <<facade_vars, file_vars, pure_vars, thread_vars>>

----------------------------------------------------------------------------
(* The path functions applied to enumerated inputs *)

Pending == [fn |-> "pending", value |-> <<>>]

PathInputs ==
    Strings \cup FacadePaths
      \cup {path_sdmc_a, path_sdmc, path_sdmc_a_slash, path_sdmc_a_slash_slash_b_slash}

ApplyUnpack ==
    /\ pure_out.fn = "pending"
    /\ pure_out' = [fn |-> "unpack_path_impl", value |-> unpack_path_impl(pure_in)]
    /\ UNCHANGED pure_in
    /\ UNCHANGED <<facade_vars, file_vars, dir_vars, thread_vars>>

\* what a facade operation does to its path before the backend sees it:
\* unpack_path, then pack_path without the root; an InvalidPath failure gives
\* no string
ApplyUnpackThenPack ==
    /\ pure_out.fn = "pending"
    /\ LET unpacked_path == unpack_path(pure_in)
       IN pure_out' = [fn |-> "unpack_path, pack_path",
                       value |-> IF unpacked_path.ok
                                 THEN pack_path(unpacked_path.value, FALSE)
                                 ELSE <<>>]
    /\ UNCHANGED pure_in
    /\ UNCHANGED <<facade_vars, file_vars, dir_vars, thread_vars>>

\* PathSegmentType and the segments pack_path is applied to: every type, with
\* empty, plain and ':'-ended names
PathSegmentType == {"Invalid", "Root", "Normal"}

SegmentNames == {<<>>, <<"a">>, <<".">>, <<"a", ":">>}

PathSegments ==
    {PathSegment_from(name, segment_type) :
        name \in SegmentNames, segment_type \in PathSegmentType}

RECURSIVE SegmentsOfLen(_)
SegmentsOfLen(n) ==
    IF n = 0 THEN {<<>>}
    ELSE {Append(v, s) : v \in SegmentsOfLen(n - 1), s \in PathSegments}

PackInputs ==
    {[unpacked_path |-> v, add_root |-> add_root] :
        v \in UNION {SegmentsOfLen(n) : n \in 0..MaxSegments},
        add_root \in BOOLEAN}

ApplyPack ==
    /\ pure_out.fn = "pending"
    /\ pure_out' = [fn |-> "pack_path",
                    value |-> pack_path(pure_in.unpacked_path, pure_in.add_root)]
    /\ UNCHANGED pure_in
    /\ UNCHANGED <<facade_vars, file_vars, dir_vars, thread_vars>>

----------------------------------------------------------------------------
(* Specifications *)

FacadeIdle ==
    /\ G_FSPSRV_SESSION = NullSession
    /\ G_DEVICES = <<>>
    /\ ret = Returned("none", NoArg, {}, NoFs, Ok(<<>>))
    /\ calls = <<>>

FileIdle ==
    /\ file = File_new
    /\ file_ret = FileReturned("new", 0, "-", Ok(<<>>), Ok(<<>>), 0)
    /\ file_calls = <<>>

DirIdle ==
    /\ dir = Directory_new(0)
    /\ dir_backend = [content |-> <<>>, pos |-> 0, faulty |-> FALSE, failures |-> 0]
    /\ dir_ret = DirReturned("new", Ok(None))
    /\ dir_log = [reads |-> 0, counts |-> <<>>, returned |-> <<>>, nexts |-> 0,
                  nones |-> 0, rewound |-> FALSE]

PureIdle ==
    /\ pure_in = <<>>
    /\ pure_out = Pending

\* the session, the device list and the facade: the process starts with no
\* session and no device
Init == FacadeIdle /\ FileIdle /\ DirIdle /\ PureIdle /\ ThreadIdle

\* no call is under way
Quiescent == \A t \in Threads : pc[t] = Idle

\* one thread makes every call, one call at a time
Next ==
    \/ Quiescent /\ Initialize
    \/ FinalizeGet(MainThread)
    \/ FinalizeClear(MainThread)
    \/ FinalizeReset(MainThread)
    \/ \E name \in MountNames, fs \in CallerFs : MountCheck(MainThread, name, fs)
    \/ MountGet(MainThread)
    \/ MountPush(MainThread)
    \/ \E name \in MountNames : SdCheck(MainThread, name)
    \/ SdOpen(MainThread)
    \/ SdAnswer(MainThread)
    \/ SdMountCheck(MainThread)
    \/ \E name \in UnmountNames : Quiescent /\ Unmount(name)
    \/ \E path \in FacadePaths : Quiescent /\ CreateFile(path, 8, "None")
    \/ \E path \in FacadePaths : Quiescent /\ DeleteFile(path)
    \/ \E path \in FacadePaths : Quiescent /\ CreateDirectory(path)
    \/ \E path \in FacadePaths : Quiescent /\ DeleteDirectory(path)
    \/ \E path \in FacadePaths : Quiescent /\ GetEntryType(path)
    \/ \E path \in FacadePaths : Quiescent /\ FormatPath(path)
    \/ \E path \in FacadePaths, option \in FacadeOptions :
           Quiescent /\ OpenFile(path, option)
    \/ \E path \in FacadePaths, mode \in DirectoryOpenModes :
           Quiescent /\ OpenDirectory(path, mode)

Spec == Init /\ [][Next]_vars

\* open_file driven with every FileOpenOption set, on one path of one device
NextOpen ==
    \/ Quiescent /\ Initialize
    \/ MountCheck(MainThread, str_sdmc, FsA)
    \/ MountGet(MainThread)
    \/ MountPush(MainThread)
    \/ \E option \in FileOpenOptions :
           Quiescent /\ OpenFile(path_sdmc_a_dd_b, option)

SpecOpen == Init /\ [][NextOpen]_vars

\* mount and mount_sd_card on one thread and finalize on another, interleaved
\* at each locked access and at each operation on what the lock handed out;
\* initialize is called while no call is under way
NextRace ==
    \/ Quiescent /\ Initialize
    \/ \E name \in MountNames, fs \in CallerFs : MountCheck(MainThread, name, fs)
    \/ MountGet(MainThread)
    \/ MountPush(MainThread)
    \/ \E name \in MountNames : SdCheck(MainThread, name)
    \/ SdOpen(MainThread)
    \/ SdAnswer(MainThread)
    \/ SdMountCheck(MainThread)
    \/ FinalizeGet(OtherThread)
    \/ FinalizeClear(OtherThread)
    \/ FinalizeReset(OtherThread)

SpecRace == Init /\ [][NextRace]_vars

\* a File handle as File::new makes it, driven by its methods
InitFile == FacadeIdle /\ FileIdle /\ DirIdle /\ PureIdle /\ ThreadIdle

NextFile ==
    \/ FileGetSize
    \/ \E offset \in SeekOffsets, whence \in Whences : FileSeek(offset, whence)
    \/ \E size \in IoSizes : FileRead(size)
    \/ \E size \in IoSizes : FileWrite(size)

SpecFile == InitFile /\ [][NextFile]_vars

\* a Directory handle as Directory::new makes it over a remote directory that
\* reported entry_count entries; the remote content is entries 1..n, where n is
\* entry_count unless entries were removed since
InitDir ==
    /\ FacadeIdle /\ FileIdle /\ PureIdle /\ ThreadIdle
    /\ \E entry_count \in 0..MaxEntries :
          /\ dir = Directory_new(entry_count)
          /\ \E n \in {entry_count} \cup {k \in {0, entry_count - 1} : k >= 0},
                faulty \in BOOLEAN :
                dir_backend = [content |-> [i \in 1..n |-> i], pos |-> 0,
                               faulty |-> faulty, failures |-> 0]
    /\ dir_ret = DirReturned("new", Ok(None))
    /\ dir_log = [reads |-> 0, counts |-> <<>>, returned |-> <<>>, nexts |-> 0,
                  nones |-> 0, rewound |-> FALSE]

NextDir ==
    \/ DirNext
    \/ DirRewind

SpecDir == InitDir /\ [][NextDir]_vars

InitPath ==
    /\ FacadeIdle /\ FileIdle /\ DirIdle /\ ThreadIdle
    /\ pure_in \in PathInputs
    /\ pure_out = Pending

NextPath ==
    \/ ApplyUnpack
    \/ ApplyUnpackThenPack

SpecPath == InitPath /\ [][NextPath]_vars

InitPack ==
    /\ FacadeIdle /\ FileIdle /\ DirIdle /\ ThreadIdle
    /\ pure_in \in PackInputs
    /\ pure_out = Pending

NextPack ==
    \/ ApplyPack

SpecPack == InitPack /\ [][NextPack]_vars

----------------------------------------------------------------------------
(* Claims C1 - C10 *)

GatedOps ==
    {"create_file", "delete_file", "create_directory", "delete_directory",
     "get_entry_type", "open_file", "open_directory", "format_path",
     "mount", "mount_sd_card"}

\* C1: a facade operation, mount or mount_sd_card called while the session is
\* absent returns NotInitialized, issues no backend call and leaves the
\* device list as it was (ret' names the call a step made)
C1_NotInitialized ==
    [][(G_FSPSRV_SESSION = NullSession /\ ret'.op \in GatedOps)
         => /\ ~ret'.res.ok
            /\ ret'.res.rc = ResultNotInitialized
            /\ calls' = <<>>
            /\ G_DEVICES' = G_DEVICES
            /\ G_FSPSRV_SESSION' = NullSession]_vars

\* C1 witness: open_file refused while the session is absent
C1_Witness ==
    /\ G_FSPSRV_SESSION = NullSession
    /\ ret.op = "open_file"
    /\ ret.arg = path_sdmc_a_dd_b
    /\ ret.res.rc = ResultNotInitialized
    /\ calls = <<>>

RootNamed(name) == PathSegment_from(name \o <<":">>, "Root")

NamedDevices(name) ==
    {i \in 1..Len(G_DEVICES) : G_DEVICES[i].root_name.name = name \o <<":">>}

\* C2: right after mount(n, fs) of a name not mounted before, the Root segment
\* n: resolves to fs; right after unmount(n) with the bare name n it resolves to
\* no device
C2_MountThenUnmount ==
    /\ (Quiescent /\ ret.op = "mount" /\ ret.res.ok
           /\ Cardinality(NamedDevices(ret.arg)) = 1)
         => /\ find_device_by_name(RootNamed(ret.arg)).ok
            /\ find_device_by_name(RootNamed(ret.arg)).value = ret.fs
    /\ (Quiescent /\ ret.op = "unmount" /\ ret.arg \in MountNames)
         => /\ ~find_device_by_name(RootNamed(ret.arg)).ok
            /\ find_device_by_name(RootNamed(ret.arg)).rc = ResultDeviceNotFound

\* the remote directory still holds what it reported at open, no read of it
\* failed or came short, and the handle was driven by next() alone
StableNextOnly ==
    /\ Len(dir_backend.content) = dir.entry_count
    /\ ~dir_backend.faulty
    /\ dir_backend.failures = 0
    /\ ~dir_log.rewound

ReturnedNone(r) == r.op = "next" /\ r.res.ok /\ ~r.res.value.some

\* C3: over a stable directory of N entries, next() returns the entries in
\* backend order, each once, and returns none only after all N
C3_EachEntryOnce ==
    StableNextOnly
      => /\ dir_log.returned = [i \in 1..Len(dir_log.returned) |-> i]
         /\ Len(dir_log.returned) <= dir.entry_count
         /\ ReturnedNone(dir_ret) => Len(dir_log.returned) = dir.entry_count

\* C4: over a stable directory, next() alone issues at most ceil(N/16) backend
\* reads; with N = 20 the 20 entries take exactly 2 reads, which return 16 and
\* then 4, and the 21st next() returns none
C4_TwentyInTwoReads ==
    StableNextOnly
      => /\ dir_log.reads * BatchSize < dir.entry_count + BatchSize
         /\ Len(dir_log.counts) = dir_log.reads
         /\ (dir.entry_count = 20 /\ dir_log.nexts = 20)
              => /\ Len(dir_log.returned) = 20
                 /\ dir_log.counts = <<16, 4>>
         /\ (dir.entry_count = 20 /\ dir_log.nexts = 21)
              => /\ ReturnedNone(dir_ret)
                 /\ dir_log.counts = <<16, 4>>

C4_Witness ==
    /\ StableNextOnly
    /\ dir.entry_count = 20
    /\ dir_log.nexts = 21
    /\ dir_log.reads = 2
    /\ ReturnedNone(dir_ret)

\* the open_file and create_file calls among those the last call issued
OpenCreateCalls ==
    SelectSeq(calls, LAMBDA c : c.fn \in {"open_file", "create_file"})

\* open_file was called with Create and its first backend open answered
\* PathNotFound
CreateOnOpen ==
    /\ ret.op = "open_file"
    /\ "Create" \in ret.option
    /\ calls # <<>>
    /\ calls[1].fn = "open_file"
    /\ calls[1].rc = ResultPathNotFound

IsCreateOf(c, first) ==
    /\ c.fn = "create_file"
    /\ c.obj = first.obj
    /\ c.path = first.path
    /\ c.attribute = "None"
    /\ c.size = 0

IsRetryOf(c, first) ==
    /\ c.fn = "open_file"
    /\ c.obj = first.obj
    /\ c.path = first.path
    /\ c.mode = first.mode

\* C5 as stated: the failed open is always followed by one create_file and
\* one further open_file
C5_CreateThenRetry ==
    CreateOnOpen
      => /\ Len(OpenCreateCalls) = 3
         /\ IsCreateOf(OpenCreateCalls[2], calls[1])
         /\ IsRetryOf(OpenCreateCalls[3], calls[1])
         /\ (ret.res.ok /\ "Append" \notin ret.option) => ret.res.value.offset = 0

\* C5 amended: one create_file (empty attributes, size 0) follows the failed
\* open; when it succeeds one open_file with the same mode and path follows
\* it, when it fails its error is returned and nothing follows; a successful
\* retry without Append gives cursor 0
C5_CreateThenRetryIfCreated ==
    CreateOnOpen
      => /\ Len(OpenCreateCalls) \in {2, 3}
         /\ IsCreateOf(OpenCreateCalls[2], calls[1])
         /\ IF OpenCreateCalls[2].rc = "Success"
            THEN /\ Len(OpenCreateCalls) = 3
                 /\ IsRetryOf(OpenCreateCalls[3], calls[1])
                 /\ ret.res.ok <=> OpenCreateCalls[3].rc = "Success"
                 /\ ~ret.res.ok => ret.res.rc = OpenCreateCalls[3].rc
            ELSE /\ Len(OpenCreateCalls) = 2
                 /\ calls = OpenCreateCalls
                 /\ ~ret.res.ok
                 /\ ret.res.rc = OpenCreateCalls[2].rc
         /\ (ret.res.ok /\ "Append" \notin ret.option)
              => /\ ret.res.value.offset = 0
                 /\ calls = OpenCreateCalls

C5_Witness ==
    /\ CreateOnOpen
    /\ ret.option = {"Create", "Write"}
    /\ Len(calls) = 3
    /\ calls[2].fn = "create_file"
    /\ calls[3].fn = "open_file"
    /\ ret.res.ok
    /\ ret.res.value.offset = 0

\* C6: when the first backend open fails and the failure is not PathNotFound
\* with Create set, open_file issues that one call only and returns its error
C6_OtherFailurePropagates ==
    (/\ ret.op = "open_file"
     /\ calls # <<>>
     /\ calls[1].fn = "open_file"
     /\ calls[1].rc # "Success"
     /\ (calls[1].rc # ResultPathNotFound \/ "Create" \notin ret.option))
      => /\ Len(calls) = 1
         /\ ~ret.res.ok
         /\ ret.res.rc = calls[1].rc

C6_Witness ==
    /\ ret.op = "open_file"
    /\ "Create" \in ret.option
    /\ Len(calls) = 1
    /\ calls[1].rc = ResultOther
    /\ ret.res.rc = ResultOther

SizeCalls == SelectSeq(calls, LAMBDA c : c.fn = "get_size")

\* C7: a File that open_file returns starts at the size the backend reported if
\* Append was asked for and the query succeeded, at 0 if the query failed, and
\* at 0 with no query issued if Append was not asked for
C7_InitialCursor ==
    (ret.op = "open_file" /\ ret.res.ok)
      => IF "Append" \in ret.option
         THEN /\ Len(SizeCalls) = 1
              /\ calls[Len(calls)].fn = "get_size"
              /\ ret.res.value.offset =
                     IF SizeCalls[1].rc = "Success" THEN SizeCalls[1].out ELSE 0
         ELSE /\ SizeCalls = <<>>
              /\ ret.res.value.offset = 0

C7_Witness ==
    /\ ret.op = "open_file"
    /\ ret.res.ok
    /\ ret.option = {"Create", "Write", "Append"}
    /\ Len(calls) = 4
    /\ calls[4].rc = "Success"
    /\ calls[4].out = 0
    /\ ret.res.value.offset = 0

\* C8: a successful seek leaves the cursor at offset (Start), at the cursor it
\* started from plus offset (Current), or at the size the backend reports
\* during the call plus offset (End)
C8_Seek ==
    (file_ret.op = "seek" /\ file_ret.res.ok)
      => CASE file_ret.whence = "Start" ->
                  file.offset = file_ret.size /\ file_calls = <<>>
           [] file_ret.whence = "Current" ->
                  file.offset = file_ret.before + file_ret.size /\ file_calls = <<>>
           [] file_ret.whence = "End" ->
                  /\ Len(file_calls) = 1
                  /\ file_calls[1].fn = "get_size"
                  /\ file.offset = file_ret.backend.value + file_ret.size

\* seek(5, Current) from the cursor 10 that seek(10, Start) leaves
C8_Witness ==
    /\ file_ret.op = "seek"
    /\ file_ret.whence = "Current"
    /\ file_ret.size = 5
    /\ file_ret.before = 10
    /\ file.offset = 15

\* C9: a successful read or write of size bytes at cursor c calls the backend
\* at offset c and leaves the cursor at c + size; read returns the count the
\* backend transferred, write returns size
C9_ReadWriteAdvance ==
    (file_ret.op \in {"read", "write"} /\ file_ret.res.ok)
      => /\ Len(file_calls) = 1
         /\ file_calls[1].fn = file_ret.op
         /\ file_calls[1].offset = file_ret.before
         /\ file_calls[1].size = file_ret.size
         /\ file.offset = file_ret.before + file_ret.size
         /\ file_ret.op = "read" => file_ret.res.value = file_ret.backend.value
         /\ file_ret.op = "write" => file_ret.res.value = file_ret.size

\* a read of 50 bytes of which the backend transferred 30
C9_Witness ==
    /\ file_ret.op = "read"
    /\ file_ret.size = 50
    /\ file_ret.res.ok
    /\ file_ret.res.value = 30
    /\ file.offset = file_ret.before + 50

\* the tokens of a path: the stretches between its '/' characters
SlashesOf(path) == {i \in 1..Len(path) : path[i] = "/"}

TokensOf(path) ==
    LET cuts == SlashesOf(path) \cup {0, Len(path) + 1}
        after(i) == CHOOSE j \in cuts : j > i /\ \A k \in cuts : k > i => j <= k
    IN {<<i, after(i)>> : i \in cuts \ {Len(path) + 1}}

\* the i-th token, counting from the cut it starts at
NthToken(path, n) ==
    LET starts == {t[1] : t \in TokensOf(path)}
        start == CHOOSE i \in starts : Cardinality({k \in starts : k < i}) = n - 1
        stop == (CHOOSE t \in TokensOf(path) : t[1] = start)[2]
    IN SubSeq(path, start + 1, stop - 1)

\* the stack after the first n tokens, as the claim describes it
RECURSIVE StackAfter(_, _)
StackAfter(path, n) ==
    IF n = 0 THEN <<>>
    ELSE LET below == StackAfter(path, n - 1)
             token == NthToken(path, n)
         IN IF token # <<>> /\ token[Len(token)] = ":"
            THEN below \o <<[name |-> token, segment_type |-> "Root"]>>
            ELSE IF token = <<".", ".">>
            THEN (IF below = <<>> THEN <<>>
                  ELSE [i \in 1..(Len(below) - 1) |-> below[i]])
            ELSE below \o <<[name |-> token, segment_type |-> "Normal"]>>

\* C10: unpack_path_impl handles the '/'-separated tokens left to right as a
\* stack: a token ending in ':' is pushed as Root, ".." pops the last pushed
\* segment (nothing when the stack is empty), any other token, the empty one
\* included, is pushed as Normal; "sdmc:/a/../b" gives [Root "sdmc:", Normal "b"]
C10_UnpackIsStack ==
    pure_out.fn = "unpack_path_impl"
      => /\ pure_out.value = StackAfter(pure_in, Cardinality(TokensOf(pure_in)))
         /\ pure_in = path_sdmc_a_dd_b
              => pure_out.value = <<[name |-> str_sdmc_colon, segment_type |-> "Root"],
                                    [name |-> <<"b">>, segment_type |-> "Normal"]>>

C10_Witness ==
    /\ pure_in = path_sdmc_a_dd_b
    /\ pure_out.fn = "unpack_path_impl"
    /\ Len(pure_out.value) = 2
    /\ pure_out.value[2].name = <<"b">>

----------------------------------------------------------------------------
(* Claims C11 - C20 *)

PathOps == GatedOps \ {"mount", "mount_sd_card"}

\* a path all of whose '/'-separated tokens are ".."
OnlyDotDot(path) ==
    \A n \in 1..Cardinality(TokensOf(path)) : NthToken(path, n) = <<".", ".">>

\* the unpacked path as the stack of C10 describes it
Unpacked(path) == StackAfter(path, Cardinality(TokensOf(path)))

\* C11: with the session present, a path operation on a path made only of ".."
\* tokens fails with InvalidPath and makes no backend call; and an operation
\* that got past unpacking (any result other than InvalidPath) had a non-empty
\* unpacked path
C11_OnlyDotDotIsInvalid ==
    (ret.op \in PathOps /\ ret.res.rc # ResultNotInitialized)
      => /\ OnlyDotDot(ret.arg)
              => /\ Unpacked(ret.arg) = <<>>
                 /\ ~ret.res.ok
                 /\ ret.res.rc = ResultInvalidPath
                 /\ calls = <<>>
         /\ ret.res.rc # ResultInvalidPath => Unpacked(ret.arg) # <<>>

\* C11 witness: get_entry_type("../..") refused although sdmc is mounted
C11_Witness ==
    /\ G_FSPSRV_SESSION # NullSession
    /\ G_DEVICES # <<>>
    /\ ret.op = "get_entry_type"
    /\ ret.arg = path_dd_dd
    /\ ret.res.rc = ResultInvalidPath
    /\ calls = <<>>

\* the names of the Normal segments, in order
NormalNames(unpacked_path) ==
    LET normal == SelectSeq(unpacked_path, LAMBDA s : s.segment_type = "Normal")
    IN [i \in 1..Len(normal) |-> normal[i].name]

\* names joined with "/" between them
RECURSIVE Joined(_)
Joined(names) ==
    IF names = <<>> THEN <<>>
    ELSE IF Len(names) = 1 THEN names[1]
    ELSE names[1] \o <<"/">> \o Joined(Tail(names))

\* C12: pack_path(segments, false) is "/" followed by the names of the Normal
\* segments joined with "/"; Root and Invalid segments add nothing wherever
\* they stand; the result starts with "/" and is exactly "/" for the empty
\* sequence and for a sequence of Root segments only
C12_PackIsSlashJoin ==
    (pure_out.fn = "pack_path" /\ ~pure_in.add_root)
      => /\ pure_out.value = <<"/">> \o Joined(NormalNames(pure_in.unpacked_path))
         /\ pure_out.value[1] = "/"
         /\ (\A i \in 1..Len(pure_in.unpacked_path) :
                pure_in.unpacked_path[i].segment_type = "Root")
              => pure_out.value = <<"/">>

\* C12 witness: Root "a:", Normal "a", Invalid "." packs to "/a"
C12_Witness ==
    /\ pure_out.fn = "pack_path"
    /\ ~pure_in.add_root
    /\ Len(pure_in.unpacked_path) = 3
    /\ pure_in.unpacked_path[1].segment_type = "Root"
    /\ pure_in.unpacked_path[1].name = <<"a", ":">>
    /\ pure_in.unpacked_path[2] = [name |-> <<"a">>, segment_type |-> "Normal"]
    /\ pure_in.unpacked_path[3].segment_type = "Invalid"
    /\ pure_in.unpacked_path[3].name = <<".">>
    /\ pure_out.value = <<"/", "a">>

\* C13: the string unpack_path then pack_path(.., false) hands to the backend
\* never ends in "/" unless it is exactly "/", for every input path, those
\* with a trailing slash or empty tokens included
C13_NoTrailingSlash ==
    (pure_out.fn = "unpack_path, pack_path" /\ pure_out.value # <<>>)
      => \/ pure_out.value = <<"/">>
         \/ pure_out.value[Len(pure_out.value)] # "/"

\* the devices a path's first unpacked segment names, by position in the list
DevicesNamedBy(devices, path) ==
    {i \in 1..Len(devices) : devices[i].root_name.name = Unpacked(path)[1].name}

\* the filesystem objects the step's backend calls went to (calls on the
\* opened file or directory aside), and the one format_path returned
ResolvedTo(r, c) ==
    ({c[i].obj : i \in 1..Len(c)} \ {BackendFile, BackendDir})
      \cup (IF r.op = "format_path" /\ r.res.ok THEN {r.res.value.fs} ELSE {})

\* the step in which a mount or mount_sd_card returns Ok
MountReturnsOk ==
    \E t \in Threads :
        /\ pc[t].op \in {"mount", "mount_sd_card"}
        /\ pc'[t] = Idle
        /\ ret'.op = pc[t].op
        /\ ret'.res.ok

\* C14: a successful mount or mount_sd_card appends one Device whatever the
\* list already holds, a second entry of the same name included; and every
\* path operation that resolves a device uses the filesystem of the earliest
\* entry of that name in the list
C14_EarliestMountWins ==
    /\ [][MountReturnsOk
            => /\ Len(G_DEVICES') = Len(G_DEVICES) + 1
               /\ SubSeq(G_DEVICES', 1, Len(G_DEVICES)) = G_DEVICES
               /\ G_DEVICES'[Len(G_DEVICES')].root_name.name
                     = ret'.arg \o <<":">>]_vars
    /\ [](Quiescent /\ ret.op \in PathOps /\ ResolvedTo(ret, calls) # {}
            => LET named == DevicesNamedBy(G_DEVICES, ret.arg)
               IN /\ named # {}
                  /\ \A i \in named :
                        (\A j \in named : i <= j)
                          => ResolvedTo(ret, calls) = {G_DEVICES[i].fs})

\* C14 witness: sdmc mounted twice with different filesystems, and a path on
\* sdmc: resolved to the first one
C14_Witness ==
    /\ Quiescent
    /\ Len(G_DEVICES) = 2
    /\ G_DEVICES[1].root_name.name = str_sdmc_colon
    /\ G_DEVICES[2].root_name.name = str_sdmc_colon
    /\ G_DEVICES[1].fs # G_DEVICES[2].fs
    /\ ret.op = "format_path"
    /\ ret.arg = path_sdmc_a_dd_b
    /\ ret.res.ok
    /\ ret.res.value.fs = G_DEVICES[1].fs

\* finalize returns on the thread that called it
FinalizeReturns ==
    /\ pc[OtherThread].at = "reset"
    /\ pc'[OtherThread] = Idle

\* finalize, called while no other call was inside the device list, ended in
\* a fault instead of returning
FinalizeFaulted ==
    /\ pc[OtherThread].op = "finalize"
    /\ pc[OtherThread].at = "aborted"
    /\ pc[MainThread] = Idle

\* C15: from any state the program reaches, mount on another thread included,
\* finalize returns, and when it returns the session is absent and the device
\* list is empty
C15_FinalizeClears ==
    /\ [][FinalizeReturns
            => /\ G_FSPSRV_SESSION' = NullSession
               /\ G_DEVICES' = <<>>]_vars
    /\ [](~FinalizeFaulted)

RECURSIVE Sum(_)
Sum(counts) == IF counts = <<>> THEN 0 ELSE Head(counts) + Sum(Tail(counts))

\* C16: the buffer holds exactly as many entries as the backend reported
\* filled over all reads: each fetching refresh grows it by the returned
\* count, not by the batch size
C16_BufferIsSumOfCounts ==
    Len(dir.entries) = Sum(dir_log.counts)

\* the remote directory holds what it reported at open and reads it in full
StableDirectory ==
    /\ Len(dir_backend.content) = dir.entry_count
    /\ ~dir_backend.faulty

\* C17: rewind leaves the cursor at 0; and on a stable directory of N > 0
\* entries, whatever next() calls came before, the next() calls after a
\* rewind return the entries again from the first one on: the j-th returns
\* entry j, up to N
C17_RewindReplays ==
    /\ dir_ret.op = "rewind" => dir.offset = 0
    /\ (StableDirectory /\ dir_log.rewound /\ dir.entry_count > 0)
         => dir_log.returned
              = [i \in 1..Min(dir_log.nexts, dir.entry_count) |-> i]

\* C18: next() never indexes the buffer past its end, whatever next() and
\* rewind() calls came before and whatever the backend reads gave (failures,
\* short and empty reads included): no call ends in the out-of-bounds panic,
\* the cursor never passes the end of the buffer, and an entry next() returned
\* was read at a cursor below the buffer's length
C18_IndexInRange ==
    /\ dir_ret.res.rc # IndexOutOfBounds
    /\ dir.offset <= Len(dir.entries)
    /\ (dir_ret.op = "next" /\ dir_ret.res.ok /\ dir_ret.res.value.some)
         => /\ dir.offset >= 1
            /\ dir.offset - 1 < Len(dir.entries)

\* C18 witness: the directory reported entries at open, a read of it filled
\* none, and next() still returned the slot under the cursor
C18_Witness ==
    /\ dir.entry_count > 0
    /\ dir_backend.faulty
    /\ \E i \in 1..Len(dir_log.counts) : dir_log.counts[i] = 0
    /\ dir_ret.op = "next"
    /\ dir_ret.res.ok
    /\ dir_ret.res.value.some
    /\ dir.offset = Len(dir.entries)

\* C19: a path operation resolves a device only when the first unpacked
\* segment is a Root segment whose name is the stored name of a mounted
\* device; when the first segment is Normal (no device prefix, or the Root
\* popped by "..", as in "sdmc:/../x") it fails with DeviceNotFound and makes
\* no backend call, whatever is mounted
C19_RootSegmentResolves ==
    (Quiescent /\ ret.op \in PathOps /\ ret.res.rc # ResultNotInitialized
       /\ Unpacked(ret.arg) # <<>>)
      => LET first == Unpacked(ret.arg)[1]
         IN /\ ResolvedTo(ret, calls) # {}
                 => /\ first.segment_type = "Root"
                    /\ \E i \in 1..Len(G_DEVICES) :
                          G_DEVICES[i].root_name = first
            /\ first.segment_type = "Normal"
                 => /\ ~ret.res.ok
                    /\ ret.res.rc = ResultDeviceNotFound
                    /\ calls = <<>>

\* C19 witness: open_file("sdmc:/../x") finds no device although sdmc is
\* mounted
C19_Witness ==
    /\ Quiescent
    /\ is_initialized
    /\ \E i \in 1..Len(G_DEVICES) : G_DEVICES[i].root_name.name = str_sdmc_colon
    /\ ret.op = "open_file"
    /\ ret.arg = path_sdmc_dd_x
    /\ ret.res.rc = ResultDeviceNotFound
    /\ calls = <<>>

\* the backend open_file calls among those the last call issued
OpenCalls == SelectSeq(calls, LAMBDA c : c.fn = "open_file")

\* C20: the mode of every backend open_file holds Read, Write and Append
\* exactly when the option set of the open_file call holds them, for all 16
\* option sets; Create is never part of the mode and changes nothing else in
\* it; the open retried after a create-on-open carries the mode of the first
C20_ModeFollowsOption ==
    ret.op = "open_file"
      => /\ \A i \in 1..Len(OpenCalls) :
               /\ \A bit \in {"Read", "Write", "Append"} :
                     bit \in OpenCalls[i].mode <=> bit \in ret.option
               /\ OpenCalls[i].mode \subseteq {"Read", "Write", "Append"}
               /\ OpenCalls[i].mode = OpenCalls[1].mode
         /\ Len(OpenCalls) <= 2

\* C20 witness: Create, Read, Write and Append together, the file created on
\* open, both opens with mode Read, Write, Append
C20_Witness ==
    /\ ret.op = "open_file"
    /\ ret.option = {"Create", "Read", "Write", "Append"}
    /\ Len(calls) >= 3
    /\ calls[1].fn = "open_file"
    /\ calls[2].fn = "create_file"
    /\ calls[3].fn = "open_file"
    /\ calls[1].mode = {"Read", "Write", "Append"}
    /\ calls[3].mode = calls[1].mode

----------------------------------------------------------------------------
(* Claims C21 - C23 *)

\* the backend call of a File method failed: the read of read, the write of
\* write, the size query of seek(_, End)
FileBackendFailed ==
    /\ \/ file_ret.op \in {"read", "write"}
       \/ file_ret.op = "seek" /\ file_ret.whence = "End"
    /\ ~file_ret.backend.ok

\* C21: when the backend call of read, write or seek(_, End) fails, the
\* method returns that error and the cursor is the one it had before the call
C21_FailureKeepsCursor ==
    FileBackendFailed
      => /\ ~file_ret.res.ok
         /\ file_ret.res.rc = file_ret.backend.rc
         /\ file.offset = file_ret.before

\* C21 witness: a write of 50 bytes fails at cursor 30 and the cursor stays
C21_Witness ==
    /\ file_ret.op = "write"
    /\ file_ret.size = 50
    /\ ~file_ret.backend.ok
    /\ ~file_ret.res.ok
    /\ file_ret.before = 30
    /\ file.offset = 30

\* C22: with initialize, finalize, mount, mount_sd_card and unmount run one
\* call at a time, a Device exists only while the session is present: in
\* every reachable state an absent session goes with an empty device list
C22_NoDeviceWithoutSession ==
    G_FSPSRV_SESSION = NullSession => G_DEVICES = <<>>

\* C22 witness: initialize failed again with devices mounted; the session it
\* had is kept, and so are the devices
C22_Witness ==
    /\ ret.op = "initialize"
    /\ ~ret.res.ok
    /\ G_FSPSRV_SESSION # NullSession
    /\ Len(G_DEVICES) = 2

\* C23: with mount and finalize interleaved as the locks of the code allow,
\* no interleaving ends, both calls returned, with the session absent and a
\* Device in the list
C23_NoDeviceWithoutSessionRaced ==
    Quiescent
      => (G_FSPSRV_SESSION = NullSession => G_DEVICES = <<>>)

====
